---- MODULE Spec2Model ----
(***************************************************************************)
(* Model of backend/fix_invoice.py: a one-shot byte patcher.  The script   *)
(* reads invoice_repository.rs in binary mode, replaces every occurrence   *)
(* of the byte pattern `target` by `replacement`, writes the buffer back   *)
(* over the same path and prints 'Fixed'.                                  *)
(*                                                                         *)
(* Bytes are integers 0..255, a buffer is a sequence of bytes.  A bytes    *)
(* literal denotes the bytes the source file spells between its quotes.    *)
(* (CPython 3 rejects the literal of line 10, which holds the two          *)
(* non-ASCII bytes C2 AC, with a SyntaxError before any statement runs;    *)
(* the model gives the statements the meaning they have once the literal   *)
(* is read byte for byte.)                                                 *)
(***************************************************************************)
EXTENDS Integers, Sequences, FiniteSets

VARIABLES
    disk,        \* bytes of invoice_repository.rs on disk
    exists,      \* whether the path exists
    pc,          \* position of the script
    content,     \* the variable `content`
    handles,     \* open file handles of the process: subset of {"rb","wb"}
    printed,     \* number of 'Fixed' lines on this run's standard output
    err,         \* which file access raised, "none" if none
    run,         \* number of the current invocation of the script
    startDisk,   \* history: disk when this invocation started
    startExists, \* history: exists when this invocation started
    readContent, \* history: the bytes f.read() returned in this invocation
    log,         \* history: the steps this invocation has executed
    prevOk,      \* history: the previous invocation ended with 'Fixed'
    others,      \* number of writes by other processes so far
    otherAt      \* history: halves of the window in which another process wrote

vars == <<disk, exists, pc, content, handles, printed, err, run, startDisk,
          startExists, readContent, log, prevOk, others, otherAt>>

----------------------------------------------------------------------------
(* Bounds *)

MaxChunks == 3
MaxRuns == 2
MaxOtherWrites == 1

----------------------------------------------------------------------------
(* The constants of the script *)

\* line 6: corrupted = b'\xc2\xac'
corrupted == <<194, 172>>

\* line 8: target = b'.bind(' + corrupted + b'es)'
target == <<46, 98, 105, 110, 100, 40>> \o corrupted \o <<101, 115, 41>>

\* line 10: replacement = b'.bind(<C2><AC>es)'
\* The literal in the source file holds the bytes C2 AC between '(' and 'es)'.
replacement == <<46, 98, 105, 110, 100, 40, 194, 172, 101, 115, 41>>

----------------------------------------------------------------------------
(* bytes.replace(old, new), old non-empty: left-to-right, non-overlapping *)

MatchAt(s, i, old) ==
    /\ i + Len(old) - 1 <= Len(s)
    /\ \A k \in 1..Len(old) : s[i + k - 1] = old[k]

RECURSIVE ReplaceFrom(_, _, _, _)
ReplaceFrom(s, i, old, new) ==
    IF i > Len(s) THEN <<>>
    ELSE IF MatchAt(s, i, old)
         THEN new \o ReplaceFrom(s, i + Len(old), old, new)
         ELSE <<s[i]>> \o ReplaceFrom(s, i + 1, old, new)

\* variant: after a match the scan advances by one byte, not past the match
RECURSIVE RescanFrom(_, _, _, _)
RescanFrom(s, i, old, new) ==
    IF i > Len(s) THEN <<>>
    ELSE IF MatchAt(s, i, old)
         THEN new \o RescanFrom(s, i + 1, old, new)
         ELSE <<s[i]>> \o RescanFrom(s, i + 1, old, new)

ReplaceRescan(s, old, new) == RescanFrom(s, 1, old, new)

\* variant: the match is cut out and the new pattern is never emitted
ReplaceDropMatch(s, old, new) == ReplaceFrom(s, 1, old, <<>>)

\* variant: only the first six bytes of the pattern are compared
ReplacePrefixMatch(s, old, new) == ReplaceFrom(s, 1, SubSeq(old, 1, 6), new)

Replace(s, old, new) == ReplaceFrom(s, 1, old, new)

----------------------------------------------------------------------------
(* File contents the script may find on disk *)

Chunks ==
    { target,
      <<46, 98, 105, 110, 100, 40, 38, 101, 115, 41>>,   \* .bind(&es)
      <<46, 98, 105, 110, 100, 40>>,                      \* .bind(
      <<194, 172>>,
      <<99, 97, 108, 108, 32>>,                           \* "call "
      <<32, 109, 111, 114, 101>> }                        \* " more"

RECURSIVE Flatten(_)
Flatten(ss) == IF ss = <<>> THEN <<>> ELSE Head(ss) \o Flatten(Tail(ss))

Inputs == { Flatten(ss) : ss \in UNION { [1..n -> Chunks] : n \in 0..MaxChunks } }

\* what another process may write to the path
OtherContents ==
    { <<120>>,
      <<35>> \o target \o <<35>>,
      <<99, 97, 108, 108, 32>> \o target \o <<32, 109, 111, 114, 101>> \o target }

\* the window between the script's read and its write, and its two halves
Window == {"read", "loaded", "patched", "writing"}

Phase(p) == IF p = "writing" THEN "handle_open" ELSE "before_open"

Prefix(s, k) == SubSeq(s, 1, k)

\* write(2) of buf at offset 0 of a file currently holding old
Overwrite(old, buf) == buf \o SubSeq(old, Len(buf) + 1, Len(old))

----------------------------------------------------------------------------

Init ==
    /\ exists \in BOOLEAN
    /\ disk \in (IF exists THEN Inputs ELSE {<<>>})
    /\ pc = "start"
    /\ content = <<>>
    /\ handles = {}
    /\ printed = 0
    /\ err = "none"
    /\ run = 1
    /\ startDisk = disk
    /\ startExists = exists
    /\ readContent = <<>>
    /\ log = <<>>
    /\ prevOk = FALSE
    /\ others = 0
    /\ otherAt = {}

\* an exception leaves the with-block (closing its handle) and ends the process
Abort(e) ==
    /\ pc' = "failed"
    /\ err' = e
    /\ handles' = {}
    /\ log' = Append(log, "error")

\* line 1: open(path, 'rb')
OpenRead ==
    /\ pc = "start"
    /\ exists
    /\ pc' = "reading"
    /\ handles' = handles \cup {"rb"}
    /\ log' = Append(log, "open_rb")
    /\ UNCHANGED <<disk, exists, content, printed, err, run, startDisk,
                   startExists, readContent, prevOk, others, otherAt>>

\* line 1: open raises (file not found, permission denied)
OpenReadFail ==
    /\ pc = "start"
    /\ Abort("open_read")
    /\ UNCHANGED <<disk, exists, content, printed, run, startDisk,
                   startExists, readContent, prevOk, others, otherAt>>

\* line 2: content = f.read()
Read ==
    /\ pc = "reading"
    /\ pc' = "read"
    /\ content' = disk
    /\ readContent' = disk
    /\ log' = Append(log, "read")
    /\ UNCHANGED <<disk, exists, handles, printed, err, run, startDisk,
                   startExists, prevOk, others, otherAt>>

\* line 2: f.read() raises
ReadFail ==
    /\ pc = "reading"
    /\ Abort("read")
    /\ UNCHANGED <<disk, exists, content, printed, run, startDisk,
                   startExists, readContent, prevOk, others, otherAt>>

\* variant: the read handle is never closed
CloseReadLeak ==
    /\ pc = "read"
    /\ pc' = "loaded"
    /\ log' = Append(log, "close_rb")
    /\ UNCHANGED <<disk, exists, content, handles, printed, err, run,
                   startDisk, startExists, readContent, prevOk, others,
                   otherAt>>

\* lines 1-2: the with-block ends, the read handle is closed
CloseRead ==
    /\ pc = "read"
    /\ pc' = "loaded"
    /\ handles' = handles \ {"rb"}
    /\ log' = Append(log, "close_rb")
    /\ UNCHANGED <<disk, exists, content, printed, err, run, startDisk,
                   startExists, readContent, prevOk, others, otherAt>>

\* line 12: content = content.replace(target, replacement)
Transform ==
    /\ pc = "loaded"
    /\ pc' = "patched"
    /\ content' = Replace(content, target, replacement)
    /\ log' = Append(log, "replace")
    /\ UNCHANGED <<disk, exists, handles, printed, err, run, startDisk,
                   startExists, readContent, prevOk, others, otherAt>>

\* variant: the file is opened for writing without being truncated
OpenWriteNoTruncate ==
    /\ pc = "patched"
    /\ pc' = "writing"
    /\ exists' = TRUE
    /\ handles' = handles \cup {"wb"}
    /\ log' = Append(log, "open_wb")
    /\ UNCHANGED <<disk, content, printed, err, run, startDisk, startExists,
                   readContent, prevOk, others, otherAt>>

\* line 14: open(path, 'wb') creates or truncates the file
OpenWrite ==
    /\ pc = "patched"
    /\ pc' = "writing"
    /\ disk' = <<>>
    /\ exists' = TRUE
    /\ handles' = handles \cup {"wb"}
    /\ log' = Append(log, "open_wb")
    /\ UNCHANGED <<content, printed, err, run, startDisk, startExists,
                   readContent, prevOk, others, otherAt>>

\* variant: the failing open has already truncated the file
OpenWriteFailTruncates ==
    /\ pc = "patched"
    /\ disk' = <<>>
    /\ Abort("open_write")
    /\ UNCHANGED <<exists, content, printed, run, startDisk,
                   startExists, readContent, prevOk, others, otherAt>>

\* line 14: open raises (permission denied) before the file is touched
OpenWriteFail ==
    /\ pc = "patched"
    /\ Abort("open_write")
    /\ UNCHANGED <<disk, exists, content, printed, run, startDisk,
                   startExists, readContent, prevOk, others, otherAt>>

\* line 15: f.write(content), flushed to the file from offset 0
WriteBack ==
    /\ pc = "writing"
    /\ pc' = "wrote"
    /\ disk' = Overwrite(disk, content)
    /\ log' = Append(log, "write")
    /\ UNCHANGED <<exists, content, handles, printed, err, run, startDisk,
                   startExists, readContent, prevOk, others, otherAt>>

\* line 15: the write raises after k bytes reached the file
WriteFail ==
    /\ pc = "writing"
    /\ \E k \in 0..Len(content) : disk' = Overwrite(disk, Prefix(content, k))
    /\ Abort("write")
    /\ UNCHANGED <<exists, content, printed, run, startDisk,
                   startExists, readContent, prevOk, others, otherAt>>

\* lines 14-15: the with-block ends, the write handle is closed
CloseWrite ==
    /\ pc = "wrote"
    /\ pc' = "stored"
    /\ handles' = handles \ {"wb"}
    /\ log' = Append(log, "close_wb")
    /\ UNCHANGED <<disk, exists, content, printed, err, run, startDisk,
                   startExists, readContent, prevOk, others, otherAt>>

\* variant: 'Fixed' is printed as soon as the buffer is patched
PrintFixedEarly ==
    /\ pc \in {"patched", "stored"}
    /\ pc' = "done"
    /\ printed' = printed + 1
    /\ log' = Append(log, "print")
    /\ UNCHANGED <<disk, exists, content, handles, err, run, startDisk,
                   startExists, readContent, prevOk, others, otherAt>>

\* line 17: print('Fixed'), then the process ends
PrintFixed ==
    /\ pc = "stored"
    /\ pc' = "done"
    /\ printed' = printed + 1
    /\ log' = Append(log, "print")
    /\ UNCHANGED <<disk, exists, content, handles, err, run, startDisk,
                   startExists, readContent, prevOk, others, otherAt>>

\* the script is invoked again after the previous process has ended
Rerun ==
    /\ pc \in {"done", "failed"}
    /\ run < MaxRuns
    /\ run' = run + 1
    /\ pc' = "start"
    /\ content' = <<>>
    /\ handles' = {}
    /\ printed' = 0
    /\ err' = "none"
    /\ startDisk' = disk
    /\ startExists' = exists
    /\ readContent' = <<>>
    /\ log' = <<>>
    /\ prevOk' = (pc = "done")
    /\ otherAt' = {}
    /\ UNCHANGED <<disk, exists, others>>

\* another process rewrites the file in full between the script's read and
\* the script's write
OtherWrite ==
    /\ pc \in Window
    /\ others < MaxOtherWrites
    /\ others' = others + 1
    /\ disk' \in OtherContents
    /\ exists' = TRUE
    /\ otherAt' = otherAt \cup {Phase(pc)}
    /\ UNCHANGED <<pc, content, handles, printed, err, run, startDisk,
                   startExists, readContent, log, prevOk>>

\* one statement of the script
Step ==
    \/ OpenRead
    \/ OpenReadFail
    \/ Read
    \/ ReadFail
    \/ CloseRead
    \/ Transform
    \/ OpenWrite
    \/ OpenWriteFail
    \/ WriteBack
    \/ WriteFail
    \/ CloseWrite
    \/ PrintFixed

Next == Step \/ Rerun

\* the script alone on the machine, invoked up to MaxRuns times
Spec == Init /\ [][Next]_vars

NextEnv == Step \/ OtherWrite

\* one invocation of the script with other processes writing the same path
SpecEnv == Init /\ [][NextEnv]_vars

----------------------------------------------------------------------------
(* Vocabulary of the properties *)

\* positions at which pattern p occurs in s
Occ(s, p) == { i \in 1..(Len(s) - Len(p) + 1) : SubSeq(s, i, i + Len(p) - 1) = p }

\* number of occurrences met by a left-to-right non-overlapping scan from i
RECURSIVE ScanCount(_, _, _)
ScanCount(s, p, i) ==
    IF i + Len(p) - 1 > Len(s) THEN 0
    ELSE IF SubSeq(s, i, i + Len(p) - 1) = p
         THEN 1 + ScanCount(s, p, i + Len(p))
         ELSE ScanCount(s, p, i + 1)

\* the replacement pattern the specification names: .bind(&es)
AmpReplacement == <<46, 98, 105, 110, 100, 40, 38, 101, 115, 41>>

\* b"call .bind(\xc2\xaces) more" and b"call .bind(&es) more"
ScenarioIn == <<99, 97, 108, 108, 32>> \o target \o <<32, 109, 111, 114, 101>>
ScenarioOut == <<99, 97, 108, 108, 32>> \o AmpReplacement \o <<32, 109, 111, 114, 101>>

\* the write of this invocation has completed
Written == pc \in {"wrote", "stored", "done"}

\* the steps of one invocation, in program order
Steps == <<"open_rb", "read", "close_rb", "replace", "open_wb", "write", "close_wb", "print">>

----------------------------------------------------------------------------
\* C1 (exactness): when the content read holds exactly one occurrence of the
\* search pattern, at position i, the content written back is the bytes
\* before i, then the replacement pattern, then the bytes after the match.
C1_Exactness ==
    (Written /\ Cardinality(Occ(readContent, target)) = 1) =>
        LET i == CHOOSE j \in Occ(readContent, target) : TRUE
        IN  disk = SubSeq(readContent, 1, i - 1) \o replacement
                   \o SubSeq(readContent, i + Len(target), Len(readContent))

C1_Witness ==
    /\ pc = "done"
    /\ Cardinality(Occ(readContent, target)) = 1
    /\ \E i \in Occ(readContent, target) :
          i > 1 /\ i + Len(target) <= Len(readContent)

\* C2 (scenario with the fixed constants): a run that read
\* b"call .bind(\xc2\xaces) more" leaves b"call .bind(&es) more" on disk, with
\* no C2 AC bytes left.
C2_Scenario ==
    (pc = "done" /\ readContent = ScenarioIn) =>
        (disk = ScenarioOut /\ Occ(disk, corrupted) = {})

\* C3 (multiplicity): after a run that read N occurrences of the search
\* pattern, the file holds exactly N occurrences of the replacement pattern
\* and no occurrence of the search pattern.
C3_Multiplicity ==
    pc = "done" =>
        /\ Cardinality(Occ(disk, replacement)) = ScanCount(readContent, target, 1)
        /\ Occ(disk, target) = {}

\* C4 (byte length): the length written equals the length read plus N times
\* (replacement length - search length), N counted by the left-to-right
\* non-overlapping scan.
C4_Length ==
    Written =>
        Len(disk) = Len(readContent)
                    + ScanCount(readContent, target, 1) * (Len(replacement) - Len(target))

C4_Witness ==
    /\ pc = "done"
    /\ ScanCount(readContent, target, 1) = 2
    /\ Len(disk) > 2 * Len(target)

\* C5 (idempotence): a run on an already-patched file (it holds a replacement
\* pattern and no search pattern) leaves the content unchanged, and a run that
\* follows a successful run leaves the content that run left.
C5_Idempotence ==
    /\ (/\ Written
        /\ Occ(startDisk, target) = {}
        /\ Occ(startDisk, replacement) \cup Occ(startDisk, AmpReplacement) # {})
           => disk = startDisk
    /\ (pc = "done" /\ prevOk) => disk = startDisk

C5_Witness ==
    /\ pc = "done"
    /\ prevOk
    /\ run = 2
    /\ Occ(startDisk, AmpReplacement) # {}
    /\ Occ(startDisk, target) = {}
    /\ disk = startDisk

\* C6 (no-op safety): when the content read holds no occurrence of the search
\* pattern, the buffer and the content written back equal the content read,
\* the run ends with 'Fixed' printed once, and the only failures are file
\* access failures.
C6_NoOp ==
    /\ (pc \in {"patched", "writing"} /\ Occ(readContent, target) = {})
           => content = readContent
    /\ (Written /\ Occ(readContent, target) = {}) => disk = readContent
    /\ pc = "done" => printed = 1
    /\ pc = "failed" => err \in {"open_read", "read", "open_write", "write"}

C6_Witness ==
    /\ pc = "done"
    /\ printed = 1
    /\ Occ(readContent, target) = {}
    /\ Occ(readContent, <<46, 98, 105, 110, 100, 40>>) # {}
    /\ disk = readContent

\* C7 as stated (failure atomicity): after any failed file access the file
\* on disk holds its original content.
C7_FailureAtomicOrig ==
    pc = "failed" => (disk = startDisk /\ exists = startExists)

\* C7 as amended: a failure before the file is opened for writing leaves the
\* file as it was; a failure of the write leaves a prefix of the new content.
C7_FailureBeforeWrite ==
    /\ (pc = "failed" /\ err # "write")
           => (disk = startDisk /\ exists = startExists)
    /\ (pc = "failed" /\ err = "write")
           => \E k \in 0..Len(content) : disk = SubSeq(content, 1, k)

C7_Witness ==
    /\ pc = "failed"
    /\ err = "open_write"
    /\ Len(startDisk) > 0
    /\ disk = startDisk

\* C8 (ordering): an invocation executes open-read, read, close, replace,
\* open-write, write, close, print in that order, stopping only at an error;
\* 'Fixed' is printed at most once and only after the write, when the file
\* holds the transform of the content read; the file is not touched before
\* the read has completed.
C8_Ordering ==
    /\ Len(log) <= Len(Steps) 
    /\ \A i \in 1..Len(log) :
          log[i] = Steps[i] \/ (i = Len(log) /\ log[i] = "error")
    /\ printed <= 1
    /\ printed = 1 =>
          /\ pc = "done"
          /\ log = Steps
          /\ disk = Replace(readContent, target, replacement)
    /\ (disk # startDisk \/ "wb" \in handles) =>
          \E i \in 1..Len(log) : log[i] = "open_wb"

C8_Witness ==
    /\ printed = 1
    /\ log = Steps
    /\ Occ(readContent, target) # {}

\* C9 (handle release): at most one handle is open at any time, the read
\* handle is closed before the write handle is opened, and no handle is open
\* once the process has ended, by 'Fixed' or by a failure.
C9_Handles ==
    /\ Cardinality(handles) <= 1
    /\ pc \in {"done", "failed"} => handles = {}
    /\ "wb" \in handles => (Len(log) >= 3 /\ log[3] = "close_rb")
    /\ "rb" \in handles <=> pc \in {"reading", "read"}
    /\ "wb" \in handles <=> pc \in {"writing", "wrote"}

C9_Witness ==
    /\ pc = "failed"
    /\ err = "write"
    /\ handles = {}
    /\ Len(log) = 6

\* C10 as stated (last writer wins): if another process wrote between the
\* read and the write, the file after the write holds the transform of the
\* content read; otherwise it holds the transform of the content the file
\* had when the run started.
C10_LastWriterOrig ==
    Written =>
        IF otherAt # {}
        THEN disk = Replace(readContent, target, replacement)
        ELSE disk = Replace(startDisk, target, replacement)

\* C10 as amended: if another process wrote only before the script opened the
\* file for writing, the file after the write holds the transform of the
\* content read (the other write is lost); if it wrote while the write handle
\* was open, the file begins with that transform and may go on with the tail
\* of the other content; with no such write, the file holds the transform of
\* the content it had when the run started.
C10_LastWriter ==
    Written =>
        /\ otherAt \subseteq {"before_open"}
               => disk = Replace(readContent, target, replacement)
        /\ "handle_open" \in otherAt
               => SubSeq(disk, 1, Len(content)) = Replace(readContent, target, replacement)
        /\ otherAt = {} => disk = Replace(startDisk, target, replacement)

C10_Witness ==
    /\ pc = "done"
    /\ otherAt = {"before_open"}
    /\ Len(readContent) > 0
    /\ disk = readContent
    /\ disk \notin OtherContents

====
